---- MODULE Spec2Model ----
(***************************************************************************)
(* CounterContractService (src/src/lib/contract.ts): the session that      *)
(* bridges the injected wallet provider (window.ethereum) to the Counter   *)
(* contract.  connect() is an async function: it runs synchronously up to  *)
(* each await, and is resumed when the awaited request settles.  Each      *)
(* action below is one such synchronous stretch of the code.  Several      *)
(* connect() invocations can be in flight on the one global instance.      *)
(***************************************************************************)
EXTENDS Integers, Sequences, FiniteSets, TLC

\* ------------------------------------------------------------------ bounds
\* connect() invocations made in one behaviour
MaxConnects == 2

\* call sites that can have a connect() in flight at the same time
Tasks == {"t1", "t2"}

\* ------------------------------------------------------- program constants
\* contract.ts:42  const SEPOLIA_CHAIN_ID_DECIMAL = 11155111
SEPOLIA_CHAIN_ID_DECIMAL == 11155111

\* contract.ts:41  const SEPOLIA_CHAIN_ID = '0xaa36a7', as its hex digits
SEPOLIA_CHAIN_ID == <<10, 10, 3, 6, 10, 7>>

\* contract.ts:54  switchError.code === 4902
CHAIN_UNKNOWN_CODE == 4902

\* contract.ts:57-69  the parameter of wallet_addEthereumChain
AddChainParams ==
    [chainId |-> SEPOLIA_CHAIN_ID,
     chainName |-> "Sepolia",
     nativeCurrency |-> [name |-> "ETH", symbol |-> "ETH", decimals |-> 18],
     rpcUrls |-> <<"https://ethereum-sepolia-rpc.publicnode.com">>,
     blockExplorerUrls |-> <<"https://sepolia.etherscan.io">>]

\* contract.ts:49  the parameter of wallet_switchEthereumChain
SwitchChainParams == [chainId |-> SEPOLIA_CHAIN_ID]

\* ------------------------------------------------------------- the wallet
\* The chains the wallet can be on: Sepolia and one other (mainnet, which
\* every wallet knows).
Chains == {SEPOLIA_CHAIN_ID_DECIMAL, 1}

\* The wallet reads the chainId parameter as a hexadecimal number.
RECURSIVE HexValue(_)
HexValue(ds) ==
    IF ds = <<>> THEN 0
    ELSE 16 * HexValue(SubSeq(ds, 1, Len(ds) - 1)) + ds[Len(ds)]

\* ------------------------------------------------------------------ values
\* null, as held by the three fields before connect()
Null == [null |-> TRUE]

NoParams == [none |-> TRUE]

\* A failure value.  shape: an Error instance or a plain provider error
\* object; code: the provider's numeric code (0: none); msg: the part of
\* the message the code looks for with includes(), "other" when neither.
ErrorValue(kind, shape, code, msg) ==
    [kind |-> kind, shape |-> shape, code |-> code, msg |-> msg]

\* What the provider and the RPC layer can reject a request with: a user
\* rejection (4001) or a duplicate request (-32002, '... already pending'),
\* as an Error instance or as a plain object.
ProviderErrors ==
    { ErrorValue("provider", s, 4001, "other") : s \in {"Error", "Object"} }
    \cup
    { ErrorValue("provider", s, -32002, "already pending") :
        s \in {"Error", "Object"} }

\* What the wallet rejects a switch to a chain it does not know with.
ChainUnknownErrors ==
    { ErrorValue("provider", s, CHAIN_UNKNOWN_CODE, "other") :
        s \in {"Error", "Object"} }

\* What a contract read can fail with besides: a result that does not
\* decode.  The ABI decoder of the contract handle raises it, as an Error
\* instance.
DecodeErrors ==
    { ErrorValue("provider", "Error", 0, "could not decode result data") }

NoError == ErrorValue("none", "none", 0, "other")

\* contract.ts:21  new Error('이 함수는 브라우저에서만 실행할 수 있습니다.')
NotBrowserError == ErrorValue("notBrowser", "Error", 0, "other")

\* contract.ts:25  new Error('MetaMask가 설치되지 않았습니다.')
WalletMissingError == ErrorValue("walletMissing", "Error", 0, "other")

\* contract.ts:115  new Error('지갑 연결에 실패했습니다.')
WalletConnectionError == ErrorValue("walletConnection", "Error", 0, "other")

\* contract.ts:121,143,151,159,167,186,193  the not-connected errors; what
\* names the missing handle in the message
NotConnectedError(what) ==
    [kind |-> "notConnected", shape |-> "Error", code |-> 0, msg |-> "other",
     what |-> what]

\* contract.ts:133-135 and 178  the errors a result that does not decode is
\* translated to
ContractReadError(opName) ==
    [kind |-> "contractRead", shape |-> "Error", code |-> 0, msg |-> "other",
     op |-> opName]

\* contract.ts:95-97  new Error(errorMessage): the message carries the
\* address and the network read at line 36
ContractNotFoundError(chainId) ==
    [kind |-> "contractNotFound", shape |-> "Error", code |-> 0,
     msg |-> "other", chainId |-> chainId]

VARIABLES
    provider,      \* this.provider
    signer,        \* this.signer
    contract,      \* this.contract
    env,           \* "server": no window; "noWallet": no window.ethereum; "wallet"
    walletChain,   \* the chain the wallet is on
    knownChains,   \* the chains the wallet knows
    deployed,      \* the chains where the contract address holds code
    pc,            \* per task: where its connect() is suspended
    serial,        \* per task: the number of its connect() invocation
    network,       \* per task: const network / chainId (line 36-37)
    updatedNetwork,\* per task: const updatedNetwork (line 81), 0 when not read
    log,           \* per task: what the invocation did, in order
    pre,           \* the three fields when the latest connect() was invoked
                   \* (a history variable, kept under Spec only)
    raised,        \* per task: the failure a step raised, NoError when none
    thrown,        \* per task: what connect() threw to its caller
    nconnects,     \* connect() invocations begun
    op,            \* the call of another method of the service, if any
    everReturned,  \* whether a connect() has returned normally
    ui             \* CounterApp.tsx: the isConnected state, the handler that
                   \* is running and whether it waits for the service

vars == <<provider, signer, contract, env, walletChain, knownChains, deployed,
          pc, serial, network, updatedNetwork, log, pre, raised, thrown,
          nconnects, op, everReturned, ui>>

wallet == <<env, walletChain, knownChains, deployed>>

Event(ev, params) == [ev |-> ev, params |-> params]

Logged(p, evs) == log' = [log EXCEPT ![p] = log[p] \o evs]

\* new ethers.BrowserProvider(window.ethereum): the n-th one of invocation k
NewProvider(k, n) == [serial |-> k, n |-> n]

\* provider.getSigner()
SignerOf(prov) == [provider |-> prov]

\* new ethers.Contract(contractAddress, CounterABI, signer)
NewContract(sgn) == [signer |-> sgn]

\* No method other than connect() has been called yet.
NoCall ==
    [name |-> "none", pc |-> "idle", raised |-> NoError, thrown |-> NoError,
     calls |-> 0, waited |-> FALSE]

Session == [provider |-> provider, signer |-> signer, contract |-> contract]

Init ==
    /\ provider = Null
    /\ signer = Null
    /\ contract = Null
    /\ env \in {"server", "noWallet", "wallet"}
    /\ walletChain \in Chains
    /\ knownChains \in {S \in SUBSET Chains : walletChain \in S /\ 1 \in S}
    /\ deployed \in SUBSET Chains
    /\ env # "wallet" => walletChain = 1 /\ knownChains = {1} /\ deployed = {}
    /\ pc = [p \in Tasks |-> "idle"]
    /\ serial = [p \in Tasks |-> 0]
    /\ network = [p \in Tasks |-> 0]
    /\ updatedNetwork = [p \in Tasks |-> 0]
    /\ log = [p \in Tasks |-> <<>>]
    /\ pre = Session
    /\ raised = [p \in Tasks |-> NoError]
    /\ thrown = [p \in Tasks |-> NoError]
    /\ nconnects = 0
    /\ op = NoCall
    /\ everReturned = FALSE
    /\ ui = [isConnected |-> FALSE, pc |-> "idle", awaiting |-> FALSE]

\* ---------------------------------------------------------------- connect
\* contract.ts:107-116  the catch of connect(): what reaches the caller
Swallowed(e) == e.shape = "Error" /\ e.msg = "already pending"

\* Mutant of CaughtAs: whatever was raised is thrown on as it is.
CaughtAsRethrown(e) ==
    IF e.shape = "Error" /\ e.msg = "already pending" THEN NoError ELSE e

CaughtAs(e) ==
    IF e.shape = "Error"
    THEN IF e.msg = "already pending" THEN NoError ELSE e
    ELSE WalletConnectionError

\* A step inside the try raised e.
Catch(p, e) ==
    /\ raised' = [raised EXCEPT ![p] = e]
    /\ thrown' = [thrown EXCEPT ![p] = CaughtAs(e)]
    /\ pc' = [pc EXCEPT ![p] = IF Swallowed(e) THEN "returned" ELSE "threw"]
    /\ everReturned' = (everReturned \/ Swallowed(e))

\* A step went through and the invocation is now at `where`.
Goto(p, where) ==
    /\ pc' = [pc EXCEPT ![p] = where]
    /\ everReturned' = (everReturned \/ where = "returned")
    /\ UNCHANGED <<raised, thrown>>

\* Mutant of EnvironmentError: only the browser check is made.
EnvironmentErrorNoWalletCheck(e) ==
    IF e = "server" THEN NotBrowserError ELSE NoError

\* contract.ts:20-26  the two checks made before the try block
EnvironmentError(e) ==
    IF e = "server" THEN NotBrowserError
    ELSE IF e = "noWallet" THEN WalletMissingError
    ELSE NoError

\* contract.ts:19-30  the call of connect(), up to the first await
ConnectStart(p) ==
    /\ pc[p] \in {"idle", "returned", "threw"}
    /\ op.pc \in {"idle", "returned", "threw"}
    /\ nconnects < MaxConnects
    /\ nconnects' = nconnects + 1
    /\ serial' = [serial EXCEPT ![p] = nconnects + 1]
    /\ network' = [network EXCEPT ![p] = 0]
    /\ updatedNetwork' = [updatedNetwork EXCEPT ![p] = 0]
    /\ raised' = [raised EXCEPT ![p] = EnvironmentError(env)]
    /\ thrown' = [thrown EXCEPT ![p] = EnvironmentError(env)]
    /\ IF EnvironmentError(env) # NoError
       THEN /\ pc' = [pc EXCEPT ![p] = "threw"]
            /\ log' = [log EXCEPT ![p] = <<>>]
       ELSE /\ pc' = [pc EXCEPT ![p] = "awaitAccounts"]
            /\ log' = [log EXCEPT ![p] =
                         <<Event("eth_requestAccounts", NoParams)>>]
    /\ UNCHANGED <<op, everReturned, provider, signer, contract, wallet>>

\* contract.ts:30-33  eth_requestAccounts settles
AccountsSettle(p) ==
    /\ pc[p] = "awaitAccounts"
    /\ \/ /\ provider' = NewProvider(serial[p], 1)
          /\ Logged(p, <<Event("newProvider", NoParams),
                         Event("getSigner", NoParams)>>)
          /\ Goto(p, "awaitSigner1")
       \/ /\ \E e \in ProviderErrors : Catch(p, e)
          /\ UNCHANGED <<provider, log>>
    /\ UNCHANGED <<op, signer, contract, wallet, serial, network, updatedNetwork,
                   pre, ui, nconnects>>

\* contract.ts:33-36  the first getSigner() settles
Signer1Settle(p) ==
    /\ pc[p] = "awaitSigner1"
    /\ \/ /\ signer' = SignerOf(NewProvider(serial[p], 1))
          /\ Logged(p, <<Event("getNetwork", NoParams)>>)
          /\ Goto(p, "awaitNetwork1")
       \/ /\ \E e \in ProviderErrors : Catch(p, e)
          /\ UNCHANGED <<signer, log>>
    /\ UNCHANGED <<op, provider, contract, wallet, serial, network, updatedNetwork,
                   pre, ui, nconnects>>

\* Mutant of NeedsSwitch: the switch is requested whatever the chain.
NeedsSwitchAlways(chainId) == TRUE

\* contract.ts:45  chainId !== SEPOLIA_CHAIN_ID_DECIMAL
NeedsSwitch(chainId) == chainId # SEPOLIA_CHAIN_ID_DECIMAL

\* contract.ts:36-50 and 90-91  the first getNetwork() settles
Network1Settle(p) ==
    /\ pc[p] = "awaitNetwork1"
    /\ \/ /\ network' = [network EXCEPT ![p] = walletChain]
          /\ IF NeedsSwitch(walletChain)
             THEN /\ Logged(p, <<Event("wallet_switchEthereumChain",
                                       SwitchChainParams)>>)
                  /\ Goto(p, "awaitSwitch")
             ELSE /\ Logged(p, <<Event("getCode", NoParams)>>)
                  /\ Goto(p, "awaitCode")
       \/ /\ \E e \in ProviderErrors : Catch(p, e)
          /\ UNCHANGED <<network, log>>
    /\ UNCHANGED <<op, provider, signer, contract, wallet, serial, updatedNetwork,
                   pre, ui, nconnects>>

\* Mutant of Rederive: the bytecode is queried through the handles derived
\* before the switch.
RederiveSkipped(p, done) ==
    /\ UNCHANGED provider
    /\ Logged(p, <<Event(done, NoParams), Event("getCode", NoParams)>>)
    /\ Goto(p, "awaitCode")

\* Mutant of Rederive: after an accepted add the switch is requested again.
RederiveRetriesSwitch(p, done) ==
    IF done = "addOk"
    THEN /\ UNCHANGED provider
         /\ Logged(p, <<Event(done, NoParams),
                        Event("wallet_switchEthereumChain",
                              SwitchChainParams)>>)
         /\ Goto(p, "awaitSwitch")
    ELSE /\ provider' = NewProvider(serial[p], 2)
         /\ Logged(p, <<Event(done, NoParams), Event("newProvider", NoParams),
                        Event("getSigner", NoParams)>>)
         /\ Goto(p, "awaitSigner2")

\* contract.ts:77-79  after the switch or the add: the handles are derived
\* again
Rederive(p, done) ==
    /\ provider' = NewProvider(serial[p], 2)
    /\ Logged(p, <<Event(done, NoParams), Event("newProvider", NoParams),
                   Event("getSigner", NoParams)>>)
    /\ Goto(p, "awaitSigner2")

\* Mutant of IsChainUnknown: every rejected switch falls back to the add.
IsChainUnknownAny(e) == TRUE

\* contract.ts:54  switchError.code === 4902
IsChainUnknown(e) == e.code = CHAIN_UNKNOWN_CODE

\* contract.ts:47-79  wallet_switchEthereumChain settles
SwitchSettle(p) ==
    /\ pc[p] = "awaitSwitch"
    /\ LET target == HexValue(SwitchChainParams.chainId) IN
       \/ /\ target \in knownChains
          /\ walletChain' = target
          /\ Rederive(p, "switchOk")
       \/ \E e \in IF target \in knownChains THEN ProviderErrors
                                            ELSE ChainUnknownErrors :
            /\ IF IsChainUnknown(e)
               THEN /\ Logged(p, <<Event("switchRejected", [code |-> e.code]),
                                   Event("wallet_addEthereumChain",
                                         AddChainParams)>>)
                    /\ Goto(p, "awaitAdd")
               ELSE /\ Logged(p, <<Event("switchRejected",
                                         [code |-> e.code])>>)
                    /\ Catch(p, e)
            /\ UNCHANGED <<provider, walletChain>>
    /\ UNCHANGED <<op, signer, contract, env, knownChains, deployed, serial,
                   network, updatedNetwork, pre, ui, nconnects>>

\* contract.ts:55-79  wallet_addEthereumChain settles; a wallet that has
\* added the chain may or may not also switch to it
AddSettle(p) ==
    /\ pc[p] = "awaitAdd"
    /\ LET target == HexValue(AddChainParams.chainId) IN
       \/ /\ knownChains' = knownChains \cup {target}
          /\ walletChain' \in {walletChain, target}
          /\ Rederive(p, "addOk")
       \/ /\ \E e \in ProviderErrors : Catch(p, e)
          /\ UNCHANGED <<provider, walletChain, knownChains, log>>
    /\ UNCHANGED <<op, signer, contract, env, deployed, serial, network,
                   updatedNetwork, pre, ui, nconnects>>

\* contract.ts:79-81  the second getSigner() settles
Signer2Settle(p) ==
    /\ pc[p] = "awaitSigner2"
    /\ \/ /\ signer' = SignerOf(NewProvider(serial[p], 2))
          /\ Logged(p, <<Event("getNetwork", NoParams)>>)
          /\ Goto(p, "awaitNetwork2")
       \/ /\ \E e \in ProviderErrors : Catch(p, e)
          /\ UNCHANGED <<signer, log>>
    /\ UNCHANGED <<op, provider, contract, wallet, serial, network, updatedNetwork,
                   pre, ui, nconnects>>

\* contract.ts:81-91  the second getNetwork() settles
Network2Settle(p) ==
    /\ pc[p] = "awaitNetwork2"
    /\ \/ /\ updatedNetwork' = [updatedNetwork EXCEPT ![p] = walletChain]
          /\ Logged(p, <<Event("getCode", NoParams)>>)
          /\ Goto(p, "awaitCode")
       \/ /\ \E e \in ProviderErrors : Catch(p, e)
          /\ UNCHANGED <<updatedNetwork, log>>
    /\ UNCHANGED <<op, provider, signer, contract, wallet, serial, network, pre, ui,
                   nconnects>>

\* contract.ts:91-106  getCode() settles: '0x' where nothing is deployed
CodeSettle(p) ==
    /\ pc[p] = "awaitCode"
    /\ \/ /\ walletChain \in deployed
          /\ contract' = NewContract(signer)
          /\ Logged(p, <<Event("newContract", [chainId |-> walletChain])>>)
          /\ Goto(p, "returned")
       \/ /\ walletChain \notin deployed
          /\ Catch(p, ContractNotFoundError(network[p]))
          /\ UNCHANGED <<contract, log>>
       \/ /\ \E e \in ProviderErrors : Catch(p, e)
          /\ UNCHANGED <<contract, log>>
    /\ UNCHANGED <<op, provider, signer, wallet, serial, network, updatedNetwork,
                   pre, ui, nconnects>>

\* ------------------------------------------------------ the other methods
ReadMethods == {"getCounter", "getOwner"}

WriteMethods == {"incrementCounter", "decrementCounter", "resetCounter"}

Methods == ReadMethods \cup WriteMethods \cup {"getWalletAddress", "getNetwork"}

\* contract.ts:120,142,150,158,166,185,192  the check each method begins
\* with: the error it throws, NoError when it goes on
NotConnectedCheck(name) ==
    CASE name = "getCounter" ->
            IF contract = Null \/ provider = Null
            THEN NotConnectedError("contract") ELSE NoError
      [] name = "getWalletAddress" ->
            IF signer = Null THEN NotConnectedError("wallet") ELSE NoError
      [] name = "getNetwork" ->
            IF provider = Null THEN NotConnectedError("provider") ELSE NoError
      [] OTHER ->
            IF contract = Null THEN NotConnectedError("contract") ELSE NoError

\* Mutant of ReadCaughtAs: every failed read is reported as a read error.
ReadCaughtAsAlways(name, e) == ContractReadError(name)

\* contract.ts:128-138 and 173-181  the catch of getCounter() and getOwner()
ReadCaughtAs(name, e) ==
    IF e.shape = "Error" /\ e.msg = "could not decode result data"
    THEN ContractReadError(name)
    ELSE e

\* Mutant of AfterCall: a mutating method returns once the transaction is
\* submitted.
AfterCallNoWait(name) == "returned"

\* contract.ts:145-146,153-154,161-162  const tx = await ...; await
\* tx.wait(): where a method goes on once its call has resolved
AfterCall(name) == IF name \in WriteMethods THEN "awaitWait" ELSE "returned"

\* contract.ts:119-126,141-145,...  the call of a method, up to its first
\* await: the check, then the contract or RPC call
MethodStart(name) ==
    /\ op.pc \in {"idle", "returned", "threw"}
    /\ \A p \in Tasks : pc[p] \in {"idle", "returned", "threw"}
    /\ LET e == NotConnectedCheck(name) IN
       op' = IF e # NoError
             THEN [name |-> name, pc |-> "threw", raised |-> NoError,
                   thrown |-> e, calls |-> 0, waited |-> FALSE]
             ELSE [name |-> name, pc |-> "awaitCall", raised |-> NoError,
                   thrown |-> NoError, calls |-> 1, waited |-> FALSE]
    /\ UNCHANGED <<provider, signer, contract, wallet, pc, serial, network,
                   updatedNetwork, log, pre, raised, thrown, nconnects,
                   everReturned>>

\* contract.ts:126-138,145-146,172-181,188,195  the contract or RPC call
\* settles
MethodCallSettle ==
    /\ op.pc = "awaitCall"
    /\ \/ op' = [op EXCEPT !.pc = AfterCall(op.name)]
       \/ \E e \in ProviderErrors \cup DecodeErrors :
            op' = [op EXCEPT !.pc = "threw",
                             !.raised = e,
                             !.thrown = IF op.name \in ReadMethods
                                        THEN ReadCaughtAs(op.name, e) ELSE e]
    /\ UNCHANGED <<provider, signer, contract, wallet, pc, serial, network,
                   updatedNetwork, log, pre, ui, raised, thrown, nconnects,
                   everReturned>>

\* contract.ts:146,154,162  tx.wait() settles
MethodWaitSettle ==
    /\ op.pc = "awaitWait"
    /\ \/ op' = [op EXCEPT !.pc = "returned", !.waited = TRUE]
       \/ \E e \in ProviderErrors :
            op' = [op EXCEPT !.pc = "threw", !.raised = e, !.thrown = e]
    /\ UNCHANGED <<provider, signer, contract, wallet, pc, serial, network,
                   updatedNetwork, log, pre, ui, raised, thrown, nconnects,
                   everReturned>>

\* contract.ts:198-200
isConnected == contract # Null

\* contract.ts:30-106  connect() at call site p is resumed after an await
ConnectResume(p) ==
    \/ AccountsSettle(p)
    \/ Signer1Settle(p)
    \/ Network1Settle(p)
    \/ SwitchSettle(p)
    \/ AddSettle(p)
    \/ Signer2Settle(p)
    \/ Network2Settle(p)
    \/ CodeSettle(p)

\* One caller at a time, as the presentation layer drives the service: it
\* awaits each connect() and each method before it calls the next.
Next ==
    \/ ConnectStart("t1") /\ pre' = Session /\ UNCHANGED ui
    \/ ConnectResume("t1")
    \/ \E name \in Methods : MethodStart(name) /\ UNCHANGED ui
    \/ MethodCallSettle
    \/ MethodWaitSettle

Spec == Init /\ [][Next]_vars

\* Two call sites, each with a connect() that can be in flight while the
\* other's is.
NextRace ==
    \E p \in Tasks :
        \/ ConnectStart(p) /\ UNCHANGED <<pre, ui>>
        \/ ConnectResume(p)

SpecRace == Init /\ [][NextRace]_vars

\* ------------------------------------------------------------- CounterApp
\* CounterApp.tsx:16-37, 80-123  the calls a handler makes after its first
\* one: connectWallet loads network, counter, owner and wallet address in
\* turn; a counter button reloads the counter
LoadSteps ==
    {"loadNetwork", "loadCounter", "loadOwner", "loadWalletAddress", "reload"}

\* CounterApp.tsx:39-78  the service method each load calls
LoadMethod(step) ==
    CASE step = "loadNetwork" -> "getNetwork"
      [] step = "loadCounter" -> "getCounter"
      [] step = "loadOwner" -> "getOwner"
      [] step = "loadWalletAddress" -> "getWalletAddress"
      [] step = "reload" -> "getCounter"

\* CounterApp.tsx:24-27  the order of the loads of connectWallet
NextLoad(step) ==
    CASE step = "loadNetwork" -> "loadCounter"
      [] step = "loadCounter" -> "loadOwner"
      [] step = "loadOwner" -> "loadWalletAddress"
      [] OTHER -> "idle"

ServiceUnchanged ==
    UNCHANGED <<provider, signer, contract, wallet, pc, serial, network,
                updatedNetwork, log, pre, raised, thrown, nconnects, op,
                everReturned>>

\* CounterApp.tsx:16-21, 144-160  the connect button, shown while
\* isConnected is false and enabled while nothing is loading
UiConnectWallet ==
    /\ ui.pc = "idle"
    /\ ~ui.isConnected
    /\ ConnectStart("t1")
    /\ pre' = Session
    /\ ui' = [ui EXCEPT !.pc = "connect", !.awaiting = TRUE]

\* CounterApp.tsx:21-23, 28-36  connectWallet goes on after await
\* counterService.connect(): setIsConnected(true) when it returned, the
\* catch when it threw
UiConnectSettled ==
    /\ ui.pc = "connect"
    /\ pc["t1"] \in {"returned", "threw"}
    /\ ui' = IF pc["t1"] = "returned"
             THEN [isConnected |-> TRUE, pc |-> "loadNetwork",
                   awaiting |-> FALSE]
             ELSE [ui EXCEPT !.pc = "idle", !.awaiting = FALSE]
    /\ ServiceUnchanged

\* CounterApp.tsx:39-78  a load calls its service method
UiLoadCall ==
    /\ ui.pc \in LoadSteps
    /\ ~ui.awaiting
    /\ MethodStart(LoadMethod(ui.pc))
    /\ ui' = [ui EXCEPT !.awaiting = TRUE]

\* CounterApp.tsx:39-78  the load is over, whether its call returned or
\* threw (each load has its own catch), and the handler goes on
UiLoadSettled ==
    /\ ui.pc \in LoadSteps
    /\ ui.awaiting
    /\ op.pc \in {"returned", "threw"}
    /\ ui' = [ui EXCEPT !.pc = NextLoad(ui.pc), !.awaiting = FALSE]
    /\ ServiceUnchanged

\* CounterApp.tsx:80-123, 177-196  a counter button of the connected view
UiWrite(name) ==
    /\ ui.pc = "idle"
    /\ ui.isConnected
    /\ MethodStart(name)
    /\ ui' = [ui EXCEPT !.pc = "write", !.awaiting = TRUE]

\* CounterApp.tsx:84-92, 98-106, 112-120  the handler goes on after the
\* service method: loadCounter when it returned, the catch when it threw
UiWriteSettled ==
    /\ ui.pc = "write"
    /\ op.pc \in {"returned", "threw"}
    /\ ui' = [ui EXCEPT !.pc = IF op.pc = "returned" THEN "reload" ELSE "idle",
                        !.awaiting = FALSE]
    /\ ServiceUnchanged

\* The service driven by the component alone.
NextUI ==
    \/ UiConnectWallet
    \/ ConnectResume("t1")
    \/ UiConnectSettled
    \/ UiLoadCall
    \/ UiLoadSettled
    \/ \E name \in WriteMethods : UiWrite(name)
    \/ MethodCallSettle
    \/ MethodWaitSettle
    \/ UiWriteSettled

SpecUI == Init /\ [][NextUI]_vars

\* ----------------------------------------------------------------- claims
Quiescent == \A p \in Tasks : pc[p] \in {"idle", "returned", "threw"}

Unpopulated == [provider |-> Null, signer |-> Null, contract |-> Null]

\* The events named ev in the log of p's invocation.
Indices(p, ev) == { i \in 1..Len(log[p]) : log[p][i].ev = ev }

\* The request or call whose failure p's invocation caught last.
RaisedBy(p) ==
    IF log[p] = <<>> THEN "none"
    ELSE LET last == log[p][Len(log[p])].ev IN
         IF last = "switchRejected" THEN "wallet_switchEthereumChain"
         ELSE last

\* C1: whenever no connect() is in flight, the provider, signer and
\* contract handles are all three present or all three absent.
C1_AllOrNothing ==
    Quiescent =>
        \/ provider = Null /\ signer = Null /\ contract = Null
        \/ provider # Null /\ signer # Null /\ contract # Null

\* C2: when a connect() invocation has failed, the three handles are the
\* ones the session held when that connect() was invoked.
C2_FailureRestoresSession ==
    \A p \in Tasks : pc[p] = "threw" => Session = pre

\* C3: while no connect() has ever returned normally, every other method
\* that is called fails with a not-connected error and issues no contract or
\* RPC call.
C3_NeverConnectedFails ==
    (~everReturned /\ op.pc # "idle") =>
        /\ op.pc = "threw"
        /\ op.thrown.kind = "notConnected"
        /\ op.calls = 0

\* C4: isConnected() is false until some connect() has returned normally,
\* and true ever after.
C4_ConnectedIffReturned == isConnected <=> everReturned

\* C5: when the bytecode query returns '0x' in a connect() invoked on an
\* unpopulated session, connect() fails with the contract-not-found error
\* and the three handles are still absent.
C5_NotFoundLeavesUnpopulated ==
    \A p \in Tasks :
        (/\ pc[p] \in {"returned", "threw"}
         /\ raised[p].kind = "contractNotFound"
         /\ pre = Unpopulated)
        => /\ pc[p] = "threw"
           /\ thrown[p].kind = "contractNotFound"
           /\ Session = Unpopulated

\* C6: a connect() that has returned normally after a step of it failed is
\* one whose eth_requestAccounts request failed; a failure of any other step
\* reaches the caller as an error.
C6_OnlyAccountsPendingSwallowed ==
    \A p \in Tasks :
        (pc[p] = "returned" /\ raised[p] # NoError)
        => RaisedBy(p) = "eth_requestAccounts"

\* C7: an invocation that read chain 11155111 at its first network fetch
\* issues no switch and no add-chain request and derives the provider and
\* signer handles only once.
C7_NoSwitchOnSepolia ==
    \A p \in Tasks :
        network[p] = 11155111 =>
            /\ Indices(p, "wallet_switchEthereumChain") = {}
            /\ Indices(p, "wallet_addEthereumChain") = {}
            /\ Cardinality(Indices(p, "newProvider")) = 1
            /\ Cardinality(Indices(p, "getSigner")) = 1
            /\ provider # NewProvider(serial[p], 2)
            /\ signer # SignerOf(NewProvider(serial[p], 2))

C7_Witness ==
    \E p \in Tasks :
        /\ network[p] = 11155111
        /\ pc[p] = "returned"
        /\ Indices(p, "newContract") # {}

\* C8: after an accepted switch request, the invocation derives the provider
\* and the signer again and fetches the network again, in that order, before
\* it queries the bytecode, and the network it fetched then is 11155111.
C8_RederiveAfterSwitch ==
    \A p \in Tasks :
        \A i \in Indices(p, "switchOk") :
            /\ log[p][i - 1].ev = "wallet_switchEthereumChain"
            /\ \A j \in Indices(p, "getCode") :
                /\ j = i + 4
                /\ log[p][i + 1].ev = "newProvider"
                /\ log[p][i + 2].ev = "getSigner"
                /\ log[p][i + 3].ev = "getNetwork"
                /\ updatedNetwork[p] = 11155111
            /\ updatedNetwork[p] \in {0, 11155111}

C8_Witness ==
    \E p \in Tasks :
        /\ Indices(p, "switchOk") # {}
        /\ Indices(p, "getCode") # {}
        /\ updatedNetwork[p] = 11155111
        /\ pc[p] = "returned"

\* C9: a switch request rejected with code 4902 is followed at once by
\* the one add-chain request of the invocation, which names chain 0xaa36a7,
\* 'Sepolia', the currency {ETH, ETH, 18} and the fixed RPC and explorer
\* URLs; an add-chain request follows nothing but such a rejection, and
\* comes before any second derivation of the handles, any bytecode query and
\* the contract handle.
C9_AddOnlyOnChainUnknown ==
    \A p \in Tasks :
        /\ \A i \in Indices(p, "switchRejected") :
              log[p][i].params.code = 4902 =>
                  /\ i < Len(log[p])
                  /\ log[p][i + 1].ev = "wallet_addEthereumChain"
        /\ Cardinality(Indices(p, "wallet_addEthereumChain")) <= 1
        /\ \A k \in Indices(p, "wallet_addEthereumChain") :
              /\ HexValue(log[p][k].params.chainId) = 11155111
              /\ log[p][k].params.chainId = <<10, 10, 3, 6, 10, 7>>
              /\ log[p][k].params.chainName = "Sepolia"
              /\ log[p][k].params.nativeCurrency =
                    [name |-> "ETH", symbol |-> "ETH", decimals |-> 18]
              /\ log[p][k].params.rpcUrls =
                    <<"https://ethereum-sepolia-rpc.publicnode.com">>
              /\ log[p][k].params.blockExplorerUrls =
                    <<"https://sepolia.etherscan.io">>
              /\ k > 1
              /\ log[p][k - 1] = Event("switchRejected", [code |-> 4902])
              /\ Cardinality({j \in 1..k : log[p][j].ev = "newProvider"}) = 1
              /\ \A j \in 1..k : log[p][j].ev \notin {"getCode", "newContract"}

C9_Witness ==
    \E p \in Tasks :
        /\ Indices(p, "wallet_addEthereumChain") # {}
        /\ Indices(p, "getCode") # {}
        /\ pc[p] = "returned"
        /\ contract # Null

\* C10: when the switch request fails with a code other than 4902, connect()
\* fails with that very error value and has issued no add-chain request.
C10_SwitchErrorUnchanged ==
    \A p \in Tasks :
        (/\ pc[p] \in {"returned", "threw"}
         /\ raised[p] # NoError
         /\ RaisedBy(p) = "wallet_switchEthereumChain")
        => /\ pc[p] = "threw"
           /\ thrown[p] = raised[p]
           /\ Indices(p, "wallet_addEthereumChain") = {}

\* C11: the contract-not-found failure names the network the wallet is on
\* when the bytecode query is made, also after connect() switched or added
\* the chain.
C11_NotFoundNamesCurrentNetwork ==
    \A p \in Tasks :
        (pc[p] = "threw" /\ thrown[p].kind = "contractNotFound")
        => thrown[p].chainId = walletChain

\* C12: a mutating method on a connected session returns only after the
\* inclusion wait of its transaction has resolved; when the submission or the
\* wait fails, the method fails with that very error and does not return.
C12_WriteReturnsAfterWait ==
    op.name \in WriteMethods
    => /\ op.pc = "returned" => (op.waited /\ op.raised = NoError)
       /\ op.raised # NoError => (op.pc = "threw" /\ op.thrown = op.raised)
       /\ op.waited => op.pc = "returned"

C12_Witness ==
    /\ op.name \in WriteMethods
    /\ op.pc = "returned"
    /\ op.waited
    /\ contract # Null

\* C13: on a connected session getCounter() and getOwner() turn a failed read
\* whose message contains 'could not decode result data' into the
\* contract-read error of the method, and pass every other failed read on as
\* the same error value.
C13_ReadFailureTranslation ==
    (op.name \in ReadMethods /\ op.raised # NoError)
    => /\ op.pc = "threw"
       /\ IF op.raised.msg = "could not decode result data"
          THEN op.thrown = ContractReadError(op.name)
          ELSE op.thrown = op.raised

C13_Witness ==
    /\ op.name \in ReadMethods
    /\ op.pc = "threw"
    /\ op.raised \in DecodeErrors
    /\ op.thrown = ContractReadError(op.name)
    /\ contract # Null

\* C14: a failure inside the steps of connect() that is not an Error instance
\* reaches the caller as the generic wallet-connection error; one that is an
\* Error instance, the 'already pending' one aside, reaches the caller as
\* that same Error.
C14_CatchNormalisation ==
    \A p \in Tasks :
        (pc[p] \in {"returned", "threw"} /\ raised[p] # NoError)
        => /\ raised[p].shape = "Object"
              => (pc[p] = "threw" /\ thrown[p] = WalletConnectionError)
           /\ (raised[p].shape = "Error" /\ raised[p].msg # "already pending")
              => (pc[p] = "threw" /\ thrown[p] = raised[p])

C14_Witness ==
    \E p \in Tasks :
        /\ pc[p] = "threw"
        /\ raised[p].shape = "Object"
        /\ thrown[p] = WalletConnectionError
        /\ Indices(p, "getCode") # {}

\* C15: nothing is retried: a call of a mutating method submits at most one
\* transaction, and a call of connect() issues at most one account request,
\* one switch request and one add-chain request, whatever fails.
C15_NoRetries ==
    /\ op.calls <= 1
    /\ \A p \in Tasks :
         \A ev \in {"eth_requestAccounts", "wallet_switchEthereumChain",
                    "wallet_addEthereumChain"} :
            Cardinality(Indices(p, ev)) <= 1

C15_Witness ==
    /\ op.name \in WriteMethods
    /\ op.pc = "threw"
    /\ op.calls = 1
    /\ Indices("t1", "wallet_addEthereumChain") # {}
    /\ Indices("t1", "wallet_switchEthereumChain") # {}

\* C16: where no wallet is injected, or outside a browser, connect() fails
\* before it issues any request and leaves the three handles as they were.
C16_NoWalletFailsEarly ==
    \A p \in Tasks :
        (env # "wallet" /\ pc[p] # "idle")
        => /\ pc[p] = "threw"
           /\ thrown[p] \in {NotBrowserError, WalletMissingError}
           /\ log[p] = <<>>
           /\ Session = pre

C16_Witness ==
    /\ env = "noWallet"
    /\ pc["t1"] = "threw"
    /\ thrown["t1"] = WalletMissingError
    /\ nconnects = 2

\* C17: once no connect() is in flight, a populated contract handle is bound
\* to the signer the session holds, and that signer was derived from the
\* provider the session holds, under sequential reconnects and under two
\* concurrent invocations alike.
C17_HandlesAgree ==
    (Quiescent /\ contract # Null)
    => /\ signer # Null
       /\ contract.signer = signer
       /\ signer.provider = provider

\* C18: connect() constructs the contract handle only while the wallet is on
\* chain 11155111, on the accepted-switch path and on the path through an
\* accepted add alike.
C18_ContractOnlyOnSepolia ==
    \A p \in Tasks :
        \A i \in Indices(p, "newContract") :
            log[p][i].params.chainId = SEPOLIA_CHAIN_ID_DECIMAL

\* C19: the component's isConnected state is true only while the service's
\* isConnected() is true: the connected view is never shown, and connectWallet
\* never calls getNetwork, getCounter or getOwner, while the contract handle
\* is absent.
C19_UiConnectedRefinesService ==
    /\ ui.isConnected => isConnected
    /\ (/\ ui.pc \in {"loadNetwork", "loadCounter", "loadOwner"}
        /\ ui.awaiting)
       => contract # Null

====
